---- MODULE Spec2Model ----
(***************************************************************************)
(* Epic Games free-games notifier: the promotion classifier               *)
(* (src/src/models.py), the response parser (FreeGamesResponse.games)     *)
(* and the check cycle of the HTTP endpoint (src/server.py) and of the    *)
(* command line (src/src/main.py).                                         *)
(*                                                                         *)
(* Conventions.  A timestamp is an integer instant (every timestamp of    *)
(* the payload is an aware UTC datetime).  An Optional[x] is a sequence   *)
(* of length at most one: <<>> is None, <<v>> is v.  A property that can  *)
(* raise evaluates to a record [exc, value]; exc = "none" when it         *)
(* returns.  Every wall-clock read (datetime.now) of an evaluation is     *)
(* drawn from a non-decreasing sequence of clock readings.                 *)
(***************************************************************************)
EXTENDS Integers, Sequences, FiniteSets, TLC

\* ------------------------------------------------------------------ bounds
\* Offers of one entry, over all of its groups.
MaxOffers == 2
\* Offer groups on each side (current / upcoming) of one Promotions object.
MaxGroups == 2
\* Start and end dates range over 1..MaxTime.
MaxTime == 2
\* Raw elements of one payload.
MaxElements == 2

\* The wall clock ranges over 0..MaxClock: before, within and after every window.
MaxClock == MaxTime + 1
Times == 1..MaxTime
Clocks == 0..MaxClock

\* ------------------------------------------------------------ GameStatus
ACTIVE == "active"
UPCOMING == "upcoming"
EXPIRED == "expired"
GameStatus == {ACTIVE, UPCOMING, EXPIRED}

\* ------------------------------------------------- sequences of bounded length
RECURSIVE SeqsUpTo(_, _)
SeqsUpTo(S, n) ==
    IF n = 0 THEN {<<>>}
    ELSE LET shorter == SeqsUpTo(S, n - 1)
         IN  shorter \cup {Append(s, x) : s \in {t \in shorter : Len(t) = n - 1}, x \in S}

\* Non-decreasing sequences of n clock readings, none before instant c.
RECURSIVE ClockReads(_, _)
ClockReads(c, n) ==
    IF n = 0 THEN {<<>>}
    ELSE UNION {{<<t>> \o r : r \in ClockReads(t, n - 1)} : t \in c..MaxClock}

\* ------------------------------------------------------------ Offer model
\* discountPercentage is any integer: nothing clamps it to 0..100.
Percentages == {-10, 0, 50, 150}

\* PromotionalOffer; discount_setting.discount_percentage is flattened into
\* the field discount_percentage.  A free offer comes with every window
\* (start >= end included), a half-price one with every window that opens at
\* instant 1, the percentages outside 0..100 with the widest window.
Offers ==
    {o \in [start_date : Times, end_date : Times, discount_percentage : Percentages] :
        \/ o.discount_percentage = 0
        \/ o.discount_percentage = 50 /\ o.start_date = 1
        \/ o.start_date = 1 /\ o.end_date = MaxTime}

\* Mutant of is_active: the end of the window counted in.
is_active_inclusive_end(offer, now) ==
    offer.start_date <= now /\ now <= offer.end_date

is_active(offer, now) == offer.start_date <= now /\ now < offer.end_date

is_upcoming(offer, now) == now < offer.start_date

\* PromotionalOfferGroup
Group(offers) == [promotional_offers |-> offers]

\* ------------------------------------------------------ Promotion aggregator
\* for group in groups: offers.extend(group.promotional_offers)
RECURSIVE extend_groups(_, _)
extend_groups(offers, groups) ==
    IF groups = <<>> THEN offers
    ELSE extend_groups(offers \o Head(groups).promotional_offers, Tail(groups))

\* Mutant of get_all_offers: the upcoming groups flattened first.
get_all_offers_upcoming_first(self) ==
    extend_groups(extend_groups(<<>>, self.upcoming_promotional_offers),
                  self.promotional_offers)

get_all_offers(self) ==
    extend_groups(extend_groups(<<>>, self.promotional_offers),
                  self.upcoming_promotional_offers)

get_current_offers(self) == extend_groups(<<>>, self.promotional_offers)

get_upcoming_offers(self) == extend_groups(<<>>, self.upcoming_promotional_offers)

\* self.promotions.get_all_offers(): AttributeError when promotions is None.
promotions_get_all_offers(promotions) ==
    IF promotions = <<>>
    THEN [exc |-> "AttributeError", value |-> <<>>]
    ELSE [exc |-> "none", value |-> get_all_offers(promotions[1])]

\* ---------------------------------------------------- Catalog entry classifier
\* `not self.promotions`: a model instance is truthy, only None is falsy.
\* Mutant of no_promotions: the guard left out.
no_promotions_unguarded(self) == FALSE

no_promotions(self) == self.promotions = <<>>

\* Mutant of is_free: a threshold instead of the exact match.
is_free_threshold(self) ==
    IF no_promotions(self) THEN [exc |-> "none", value |-> FALSE]
    ELSE LET all == promotions_get_all_offers(self.promotions)
         IN  IF all.exc # "none" THEN [exc |-> all.exc, value |-> FALSE]
             ELSE [exc |-> "none",
                   value |-> \E k \in 1..Len(all.value) :
                                 all.value[k].discount_percentage <= 0]

is_free(self) ==
    IF no_promotions(self) THEN [exc |-> "none", value |-> FALSE]
    ELSE LET all == promotions_get_all_offers(self.promotions)
         IN  IF all.exc # "none" THEN [exc |-> all.exc, value |-> FALSE]
             ELSE [exc |-> "none",
                   value |-> \E k \in 1..Len(all.value) :
                                 all.value[k].discount_percentage = 0]

\* Mutant of status_considers: a half-price offer counted as free.
status_considers_half_price(offer) == offer.discount_percentage \in {0, 50}

\* Mutant of status_considers: every discount counted.
status_considers_any(offer) == TRUE

\* Does this offer take part in the scan for a free promotion?
status_considers(offer) == offer.discount_percentage = 0

\* Mutant of status_scan: any active offer looked for before any upcoming one.
status_scan_active_first(offers, k, reads, r) ==
    IF \A j \in 1..Len(offers) : ~status_considers(offers[j])
    THEN [value |-> EXPIRED, nreads |-> r]
    ELSE
    IF \E j \in 1..Len(offers) :
           status_considers(offers[j]) /\ is_active(offers[j], reads[1])
    THEN [value |-> ACTIVE, nreads |-> 1]
    ELSE IF \E j \in 1..Len(offers) :
                status_considers(offers[j]) /\ is_upcoming(offers[j], reads[2])
         THEN [value |-> UPCOMING, nreads |-> 2]
         ELSE [value |-> EXPIRED, nreads |-> 2]

\* The loop of status from offer k on; r clock readings are already used.
\* is_active and is_upcoming each read the clock themselves.
RECURSIVE status_scan(_, _, _, _)
status_scan(offers, k, reads, r) ==
    IF k > Len(offers) THEN [value |-> EXPIRED, nreads |-> r]
    ELSE IF status_considers(offers[k])
         THEN IF is_active(offers[k], reads[r + 1])
              THEN [value |-> ACTIVE, nreads |-> r + 1]
              ELSE IF is_upcoming(offers[k], reads[r + 2])
                   THEN [value |-> UPCOMING, nreads |-> r + 2]
                   ELSE status_scan(offers, k + 1, reads, r + 2)
         ELSE status_scan(offers, k + 1, reads, r)

status(self, reads) ==
    IF no_promotions(self) THEN [exc |-> "none", value |-> EXPIRED, nreads |-> 0]
    ELSE LET all == promotions_get_all_offers(self.promotions)
         IN  IF all.exc # "none" THEN [exc |-> all.exc, value |-> EXPIRED, nreads |-> 0]
             ELSE IF all.value = <<>>
                  THEN [exc |-> "none", value |-> EXPIRED, nreads |-> 0]
                  ELSE LET s == status_scan(all.value, 1, reads, 0)
                       IN  [exc |-> "none", value |-> s.value, nreads |-> s.nreads]

\* The most clock readings one evaluation of status can make: two for each
\* offer the scan considers.
MaxReads(self) ==
    IF self.promotions = <<>> THEN 0
    ELSE LET all == get_all_offers(self.promotions[1])
         IN  2 * Cardinality({k \in 1..Len(all) : status_considers(all[k])})

\* The offer whose dates available_from / available_until report.
available_offer(all_offers) ==
    IF all_offers = <<>> THEN [exc |-> "IndexError", value |-> <<>>]
    ELSE [exc |-> "none", value |-> <<all_offers[1]>>]

available_from(self) ==
    IF no_promotions(self) THEN [exc |-> "none", value |-> <<>>]
    ELSE LET all == promotions_get_all_offers(self.promotions)
         IN  IF all.exc # "none" THEN [exc |-> all.exc, value |-> <<>>]
             ELSE IF all.value = <<>> THEN [exc |-> "none", value |-> <<>>]
                  ELSE LET o == available_offer(all.value)
                       IN  IF o.exc # "none" THEN [exc |-> o.exc, value |-> <<>>]
                           ELSE [exc |-> "none", value |-> <<o.value[1].start_date>>]

available_until(self) ==
    IF no_promotions(self) THEN [exc |-> "none", value |-> <<>>]
    ELSE LET all == promotions_get_all_offers(self.promotions)
         IN  IF all.exc # "none" THEN [exc |-> all.exc, value |-> <<>>]
             ELSE IF all.value = <<>> THEN [exc |-> "none", value |-> <<>>]
                  ELSE LET o == available_offer(all.value)
                       IN  IF o.exc # "none" THEN [exc |-> o.exc, value |-> <<>>]
                           ELSE [exc |-> "none", value |-> <<o.value[1].end_date>>]

\* Mutant of games_keeps: no filter on the status.
games_keeps_all(st) == TRUE

\* games: `if game.status in [GameStatus.ACTIVE, GameStatus.UPCOMING]`
games_keeps(st) == st \in {ACTIVE, UPCOMING}

\* ------------------------------------------------------------ FreeGame
\* The fields of FreeGame the classifier, the parser and the cycle read.
\* product_slug and url_slug are Optional[str]: <<>> is None.
\* A text is its content and its length in characters; dropped counts the
\* characters a slice took off its end, suffix is what was appended to it.
Text(content, length) ==
    [content |-> content, length |-> length, dropped |-> 0, suffix |-> ""]

FreeGame(id, key_images, promotions) ==
    [id |-> id, key_images |-> key_images, promotions |-> promotions,
     product_slug |-> <<>>, url_slug |-> <<>>,
     title |-> Text("title", 5), description |-> Text("description", 11)]

\* Mutant of store_url_slug: only None is passed over, "" is a slug.
store_url_slug_not_none(self) ==
    IF self.product_slug # <<>>
    THEN [text |-> self.product_slug[1], id |-> 0]
    ELSE IF self.url_slug # <<>>
    THEN [text |-> self.url_slug[1], id |-> 0]
    ELSE [text |-> "", id |-> self.id]

\* `self.product_slug or self.url_slug or self.id`: None and "" are falsy.
\* The slug is a text, or the id of the entry.
store_url_slug(self) ==
    IF self.product_slug # <<>> /\ self.product_slug[1] # ""
    THEN [text |-> self.product_slug[1], id |-> 0]
    ELSE IF self.url_slug # <<>> /\ self.url_slug[1] # ""
    THEN [text |-> self.url_slug[1], id |-> 0]
    ELSE [text |-> "", id |-> self.id]

store_url(self) ==
    [base |-> "https://store.epicgames.com/en-US/p/", slug |-> store_url_slug(self)]

ThumbnailTypes == {"Thumbnail", "OfferImageWide", "DieselStoreFrontWide"}

\* thumbnail_url: the url of the first image of a thumbnail type, else of the
\* first image, else None.
RECURSIVE thumbnail_url_scan(_, _)
thumbnail_url_scan(key_images, k) ==
    IF k > Len(key_images)
    THEN IF key_images # <<>> THEN <<key_images[1].url>> ELSE <<>>
    ELSE IF key_images[k].type \in ThumbnailTypes THEN <<key_images[k].url>>
    ELSE thumbnail_url_scan(key_images, k + 1)

\* Mutant of thumbnail_url: the first image, whatever its type.
thumbnail_url_first_image(self) ==
    IF self.key_images # <<>> THEN <<self.key_images[1].url>> ELSE <<>>

thumbnail_url(self) == thumbnail_url_scan(self.key_images, 1)

Promotions(current, upcoming) ==
    [promotional_offers |-> current, upcoming_promotional_offers |-> upcoming]

\* The ways to write the offers s as at most g groups, empty groups included.
RECURSIVE Groupings(_, _)
Groupings(s, g) ==
    (IF s = <<>> THEN {<<>>} ELSE {}) \cup
    (IF g = 0 THEN {}
     ELSE UNION {{<<Group(SubSeq(s, 1, k))>> \o rest :
                     rest \in Groupings(SubSeq(s, k + 1, Len(s)), g - 1)} :
                 k \in 0..Len(s)})

\* The Promotions objects whose current groups hold the first cut offers of
\* flat and whose upcoming groups hold the others, in at most g groups a side.
PromotionsOf(flat, cut, g) ==
    {Promotions(c, u) :
        c \in Groupings(SubSeq(flat, 1, cut), g),
        u \in Groupings(SubSeq(flat, cut + 1, Len(flat)), g)}

\* Two offers that differ only in their discount, to tell orders apart.
MarkerOffers ==
    {o \in Offers : o.start_date = 1 /\ o.end_date = MaxTime
                    /\ o.discount_percentage \in {0, 50}}

\* ------------------------------------------------------------ Response parser
\* A raw element of the payload.  title is the kind of JSON value found under
\* "title" ("str", "number", or "absent"); effectiveDate is "iso" for a
\* parseable timestamp and "garbage" for any other string; a key image holds
\* its type and the scheme of its url; productSlug and urlSlug are <<>> when
\* absent or null.  The other required fields (description, id, namespace,
\* seller) are present and well typed.
RawElement(id, title, effectiveDate, keyImages, promotions) ==
    [id |-> id, title |-> title, effectiveDate |-> effectiveDate,
     keyImages |-> keyImages, promotions |-> promotions,
     productSlug |-> <<>>, urlSlug |-> <<>>]

HttpsImage == [type |-> "Thumbnail", url |-> "https"]
VideoImage == [type |-> "Video", url |-> "com.epicgames.video"]

\* Mutant of KeyImage_url_valid: the url declared HttpUrl again.
KeyImage_url_http_only(url) == url \in {"http", "https"}

\* KeyImage.url is a str: every scheme is accepted.
KeyImage_url_valid(url) == url \in {"http", "https", "com.epicgames.video"}

\* FreeGame(**element): pydantic validation of the element.
FreeGame_construct(element) ==
    IF \/ element.title # "str"
       \/ element.effectiveDate # "iso"
       \/ \E k \in 1..Len(element.keyImages) :
              ~KeyImage_url_valid(element.keyImages[k].url)
    THEN [exc |-> "ValidationError", value |-> <<>>]
    ELSE [exc |-> "none",
          value |-> <<[FreeGame(element.id, element.keyImages, element.promotions)
                          EXCEPT !.product_slug = element.productSlug,
                                 !.url_slug = element.urlSlug]>>]

\* Mutant of games_catches: no try / except around the element.
games_catches_nothing(exc) == FALSE

\* games: `except Exception: continue`
games_catches(exc) == TRUE

\* Offers of the payloads of a cycle: free this week, free next week, and a
\* partial discount this week.
FreeThisWeek == [start_date |-> 1, end_date |-> MaxTime, discount_percentage |-> 0]
FreeNextWeek == [start_date |-> MaxTime, end_date |-> MaxTime + 1, discount_percentage |-> 0]
HalfPrice == [start_date |-> 1, end_date |-> MaxTime, discount_percentage |-> 50]

Current(offer) == <<Promotions(<<Group(<<offer>>)>>, <<>>)>>
Soon(offer) == <<Promotions(<<>>, <<Group(<<offer>>)>>)>>

\* The raw elements a payload is made of: four valid ones (one with a video
\* url among its images) and one for each kind of validation failure.
RawElements ==
    { RawElement(0, "str", "iso", <<HttpsImage, VideoImage>>, Current(FreeThisWeek)),
      RawElement(0, "str", "iso", <<HttpsImage>>, Soon(FreeNextWeek)),
      RawElement(0, "str", "iso", <<HttpsImage>>, Current(HalfPrice)),
      RawElement(0, "str", "iso", <<>>, <<>>),
      RawElement(0, "absent", "iso", <<HttpsImage>>, Current(FreeThisWeek)),
      RawElement(0, "str", "garbage", <<HttpsImage>>, Current(FreeThisWeek)),
      RawElement(0, "number", "iso", <<HttpsImage>>, Current(FreeThisWeek)) }

\* The element arrays of a payload; element k carries id k.
Payloads ==
    {[k \in 1..Len(s) |-> [s[k] EXCEPT !.id = k]] : s \in SeqsUpTo(RawElements, MaxElements)}

\* ------------------------------------------------------------ Response body
\* What response.json() is given.  json is "invalid" for a body that is not
\* JSON, "null" for a JSON value that is no container (null, a number, a
\* boolean), "array" for a JSON array or string, "object" for a JSON object.
\* Of an object: errors is <<>> without the key "errors", else the value under
\* it (kind "list" with the errorCode of every item, or kind "null"); path says
\* how the keys data -> Catalog -> searchStore -> elements are present; elements
\* is the element array.
JsonBody(json, errors, path, elements) ==
    [json |-> json, errors |-> errors, path |-> path, elements |-> elements]

ErrorList(items) == <<[kind |-> "list", items |-> items]>>
ErrorNull == <<[kind |-> "null", items |-> <<>>]>>

NotJson == JsonBody("invalid", <<>>, "full", <<>>)
JsonNull == JsonBody("null", <<>>, "full", <<>>)
JsonArray == JsonBody("array", <<>>, "full", <<>>)
JsonObject(errors, path, elements) == JsonBody("object", errors, path, elements)

\* The paths of an object: complete; a key missing at one of the four levels;
\* null under "data"; null under "elements".
MissingKeyPaths == {"no_data", "no_Catalog", "no_searchStore", "no_elements"}
NullPaths == {"data_null", "elements_null"}
Paths == {"full"} \cup MissingKeyPaths \cup NullPaths

\* response.json(): ValueError on a body that is not JSON.
response_json(body) ==
    IF body.json = "invalid" THEN [exc |-> "ValueError", value |-> body]
    ELSE [exc |-> "none", value |-> body]

\* _clean_response_errors: `if error.get("errorCode") != "1004"`
clean_keeps(code) == code # "1004"

\* _clean_response_errors(data): `"errors" in data` raises TypeError on a value
\* that is no container, and so does iterating a null "errors".
clean_response_errors(data) ==
    IF data.json = "null" THEN [exc |-> "TypeError", value |-> data]
    ELSE IF data.json = "array" \/ data.errors = <<>>
    THEN [exc |-> "none", value |-> data]
    ELSE IF data.errors[1].kind = "null" THEN [exc |-> "TypeError", value |-> data]
    ELSE LET cleaned_errors == SelectSeq(data.errors[1].items, clean_keeps)
         IN  [exc |-> "none",
              value |-> [data EXCEPT !.errors = IF cleaned_errors # <<>>
                                                THEN ErrorList(cleaned_errors)
                                                ELSE <<>>]]

\* FreeGamesResponse(data=data) and the navigation of .games down to the
\* element array: data must be a dict; a missing key gives the default, and so
\* no element; null under "data" has no .get, null under "elements" is not
\* iterable.
FreeGamesResponse_elements(data) ==
    IF data.json # "object" THEN [exc |-> "ValidationError", value |-> <<>>]
    ELSE IF data.path = "full" THEN [exc |-> "none", value |-> data.elements]
    ELSE IF data.path \in MissingKeyPaths THEN [exc |-> "none", value |-> <<>>]
    ELSE IF data.path = "data_null" THEN [exc |-> "AttributeError", value |-> <<>>]
    ELSE [exc |-> "TypeError", value |-> <<>>]

\* ------------------------------------------------------------------ state
VARIABLES
    clock,           \* the wall clock
    entry,           \* the FreeGame being classified
    cls,             \* what one classification of entry returned
    config,          \* the loaded configuration
    args,            \* the entry point and its command-line flags
    pc,              \* where the check cycle stands
    elements,        \* the element array of the fetched payload
    games,           \* FreeGamesResponse.games: the entries kept so far
    parsed,          \* per element already parsed: how the parser classified it
    active_games,    \* the cycle's list of active games
    upcoming_games,  \* the cycle's list of upcoming games
    posts,           \* the webhook POSTs made, in order
    error,           \* the exception that ended the cycle: its class and message
    response,        \* the HTTP response or exit code, once given
    fetch,           \* one call of get_free_games, GET by GET
    served,          \* the trigger requests the server has answered
    twice,           \* one payload object, parsed and classified twice
    embed,           \* the embed built for entry, once built
    watch            \* the statuses of entry, evaluation after evaluation

vars == <<clock, entry, cls, config, args, pc, elements, games, parsed,
          active_games, upcoming_games, posts, error, response, fetch, served,
          twice, embed, watch>>

\* The state of the operations that are also run on their own.
unit_vars == <<fetch, served, twice, embed, watch>>

cycle_vars == <<config, args, pc, elements, games, parsed,
                active_games, upcoming_games, posts, error, response>>

NoCls ==
    [done |-> FALSE, reads |-> <<>>,
     status |-> [exc |-> "none", value |-> EXPIRED],
     kept |-> FALSE,
     is_free |-> [exc |-> "none", value |-> FALSE],
     available_from |-> [exc |-> "none", value |-> <<>>],
     available_until |-> [exc |-> "none", value |-> <<>>],
     all_offers |-> <<>>, current_offers |-> <<>>, upcoming_offers |-> <<>>]

\* An exception of class type, raised with this message.
Exception(type, message) == [type |-> type, message |-> message]

NoError == Exception("none", "")

\* NotificationConfig and DiscordConfig as config.py declares them.
DefaultConfig ==
    [loaded |-> TRUE, discord_enabled |-> FALSE, webhook_url |-> FALSE,
     notify_current_games |-> TRUE, notify_upcoming_games |-> TRUE]

ServerArgs ==
    [frontend |-> "server", active_only |-> FALSE, upcoming_only |-> FALSE,
     send_discord |-> FALSE]

\* No cycle is running.
NoCycle ==
    /\ config = DefaultConfig
    /\ args = ServerArgs
    /\ pc = "off"
    /\ elements = <<>>
    /\ games = <<>>
    /\ parsed = <<>>
    /\ active_games = <<>>
    /\ upcoming_games = <<>>
    /\ posts = <<>>
    /\ error = NoError
    /\ response = <<>>

\* No call of get_free_games is followed GET by GET.
NoFetch ==
    [pc |-> "off", attempts |-> <<>>, outcome |-> "none", body |-> JsonNull,
     data |-> JsonNull, elements |-> <<>>, error |-> NoError, returned |-> <<>>]

\* No payload is being classified twice.
NoTwice == [pc |-> "off", raw |-> JsonNull, data |-> JsonNull, now |-> 0, runs |-> <<>>]

\* The instant of the last of the first n readings; c when there is none.
ClockAfter(c, reads, n) == IF n = 0 THEN c ELSE reads[n]

\* What self.status can return when called at clock c: the result, the clock
\* readings it made, and the clock after the last of them.
StatusOutcomes(self, c) ==
    {LET st == status(self, reads)
     IN  [exc |-> st.exc, value |-> st.value,
          reads |-> SubSeq(reads, 1, st.nreads),
          clock |-> ClockAfter(c, reads, st.nreads)] :
        reads \in ClockReads(c, MaxReads(self))}

\* Is self an entry with a promotions block of at most n offers of O, in at
\* most g groups a side?
EntryOver(self, O, g, n) ==
    \E flat \in SeqsUpTo(O, n) :
        \E cut \in 0..Len(flat) :
            \E p \in PromotionsOf(flat, cut, g) : self = FreeGame(0, <<>>, <<p>>)

\* The entries to classify: one without promotions; every offer, in at most
\* one group a side; and every group shape over the marker offers.
InitClassify ==
    /\ clock = 0
    /\ \/ entry = FreeGame(0, <<>>, <<>>)
       \/ EntryOver(entry, Offers, 1, MaxOffers)
       \/ EntryOver(entry, MarkerOffers, MaxGroups, MaxOffers + 1)
    /\ cls = NoCls
    /\ NoCycle
    /\ fetch = NoFetch
    /\ served = 0
    /\ twice = NoTwice
    /\ embed = <<>>
    /\ watch = <<>>

\* One classification of entry, as the parser and the consumers make it:
\* status (and the parser's filter on it), is_free, available_from,
\* available_until, and the three flattenings of its promotions.
Classify ==
    /\ ~cls.done
    /\ pc = "off"
    /\ \E st \in StatusOutcomes(entry, clock) :
         LET p == entry.promotions
         IN  /\ cls' = [done |-> TRUE, reads |-> st.reads,
                        status |-> [exc |-> st.exc, value |-> st.value],
                        kept |-> st.exc = "none" /\ games_keeps(st.value),
                        is_free |-> is_free(entry),
                        available_from |-> available_from(entry),
                        available_until |-> available_until(entry),
                        all_offers |->
                            IF p = <<>> THEN <<>> ELSE get_all_offers(p[1]),
                        current_offers |->
                            IF p = <<>> THEN <<>> ELSE get_current_offers(p[1]),
                        upcoming_offers |->
                            IF p = <<>> THEN <<>> ELSE get_upcoming_offers(p[1])]
             /\ clock' = st.clock
    /\ UNCHANGED <<unit_vars, entry, cycle_vars>>

NextClassify == Classify

SpecClassify == InitClassify /\ [][NextClassify]_vars

\* ------------------------------------------------------------ the check cycle
\* discord_notifier.py: embeds are built for games[:10].
NotificationCap == 10

ActiveTitle == "Free Games Available Now!"
UpcomingTitle == "Upcoming Free Games"

Configs ==
    {[DefaultConfig EXCEPT !.loaded = FALSE]} \cup
    [loaded : {TRUE}, discord_enabled : BOOLEAN, webhook_url : BOOLEAN,
     notify_current_games : BOOLEAN, notify_upcoming_games : BOOLEAN]

\* The endpoint, and the command line in its three modes.
Args ==
    {ServerArgs} \cup
    {a \in [frontend : {"cli"}, active_only : BOOLEAN, upcoming_only : BOOLEAN,
            send_discord : BOOLEAN] : ~(a.active_only /\ a.upcoming_only)}

\* What session.get and raise_for_status end in with the session of
\* _create_session: a response, or an exception of requests by its nearest
\* class among those get_free_games tells apart.
TransportOutcomes == {"ok", "Timeout", "HTTPError", "RequestException"}

\* get_free_games: the except clauses around the GET.
get_free_games_transport_error(outcome) ==
    IF outcome = "Timeout" THEN Exception("NetworkError", "Request timeout after 30s")
    ELSE IF outcome = "HTTPError429"
         THEN Exception("RateLimitError", "API rate limit exceeded")
         ELSE IF outcome = "HTTPError" THEN Exception("NetworkError", "HTTP error")
              ELSE Exception("NetworkError", "Network request failed")

\* get_free_games: what an exception of the parsing is raised on as.
get_free_games_parse_error == Exception("InvalidResponseError", "Failed to parse response")

\* exceptions.py: the subclasses of EpicGamesAPIError.
EpicGamesAPIError == {"NetworkError", "InvalidResponseError", "RateLimitError"}

\* get_free_games from response.json() to the element array: the decoding
\* (ValueError raised on as InvalidResponseError), the cleaning (outside every
\* try: what it raises leaves get_free_games as it is), the construction of
\* FreeGamesResponse and the navigation of .games (any exception raised on as
\* InvalidResponseError).  data is the local variable data at that point.
get_free_games_decode(body) ==
    LET decoded == response_json(body)
        cleaned == clean_response_errors(decoded.value)
        found == FreeGamesResponse_elements(cleaned.value)
    IN  IF decoded.exc # "none"
        THEN [error |-> Exception("InvalidResponseError", "Invalid JSON response"),
              data |-> body, elements |-> <<>>]
        ELSE IF cleaned.exc # "none"
        THEN [error |-> Exception(cleaned.exc, ""), data |-> body, elements |-> <<>>]
        ELSE IF found.exc # "none"
        THEN [error |-> get_free_games_parse_error, data |-> cleaned.value,
              elements |-> <<>>]
        ELSE [error |-> NoError, data |-> cleaned.value, elements |-> found.value]

\* The bodies a cycle is answered with: no JSON, JSON null, and every payload.
CycleBodies ==
    {NotJson, JsonNull} \cup {JsonObject(<<>>, "full", payload) : payload \in Payloads}

\* What requests.post and raise_for_status can end in.
PostOutcomes == {"ok", "RequestException"}

\* Mutant of notifier_catches: the POST not wrapped in try / except.
notifier_catches_nothing(exc) == FALSE

\* send_multiple_games_notification: `except requests.exceptions.RequestException`
notifier_catches(exc) == exc = "RequestException"

\* [g for g in games if g.status.value == value] from game k on, started at
\* clock c: the lists it can build, each with the clock it ends at.  Every
\* status reads the clock afresh.
RECURSIVE filter_status(_, _, _, _)
filter_status(gs, k, value, c) ==
    IF k > Len(gs) THEN {[value |-> <<>>, clock |-> c]}
    ELSE UNION {{[value |-> IF st.value = value THEN <<gs[k]>> \o rest.value
                            ELSE rest.value,
                  clock |-> rest.clock] :
                    rest \in filter_status(gs, k + 1, value, st.clock)} :
                st \in StatusOutcomes(gs[k], c)}

Ids(gs) == [k \in 1..Len(gs) |-> gs[k].id]

\* Mutant of FirstN: the whole list.
FirstN_uncapped(gs, n) == gs

\* games[:n]
FirstN(gs, n) == SubSeq(gs, 1, IF Len(gs) < n THEN Len(gs) ELSE n)

Init ==
    /\ clock = 0
    /\ entry = FreeGame(0, <<>>, <<>>)
    /\ cls = NoCls
    /\ config \in Configs
    /\ args \in Args
    /\ pc = "start"
    /\ elements = <<>>
    /\ games = <<>>
    /\ parsed = <<>>
    /\ active_games = <<>>
    /\ upcoming_games = <<>>
    /\ posts = <<>>
    /\ error = NoError
    /\ response = <<>>
    /\ fetch = NoFetch
    /\ served = 0
    /\ twice = NoTwice
    /\ embed = <<>>
    /\ watch = <<>>

\* server.py: `if config is None`; main.py: load_config raised.
ConfigurationError ==
    /\ pc = "start"
    /\ ~config.loaded
    /\ response' = <<[code |-> IF args.frontend = "server" THEN 500 ELSE 1,
                      kind |-> "Configuration error", active |-> 0, upcoming |-> 0]>>
    /\ error' = Exception("ConfigurationError", "Configuration error")
    /\ pc' = "done"
    /\ UNCHANGED <<unit_vars, clock, entry, cls, config, args, elements, games, parsed,
                   active_games, upcoming_games, posts>>

\* get_free_games up to the element array: the GET, the JSON decoding.
Request ==
    /\ pc = "start"
    /\ config.loaded
    /\ \E outcome \in TransportOutcomes :
         IF outcome # "ok"
         THEN /\ error' = get_free_games_transport_error(outcome)
              /\ pc' = "respond"
              /\ elements' = elements
         ELSE \E body \in CycleBodies :
                 LET got == get_free_games_decode(body)
                 IN  /\ error' = got.error
                     /\ elements' = got.elements
                     /\ pc' = IF got.error # NoError THEN "respond"
                              ELSE IF got.elements = <<>> THEN "split" ELSE "parse"
    /\ UNCHANGED <<unit_vars, clock, entry, cls, config, args, games, parsed,
                   active_games, upcoming_games, posts, response>>

\* One turn of the loop of FreeGamesResponse.games, on the next element.
ParseElement ==
    /\ pc = "parse"
    /\ LET i == Len(parsed) + 1
           c == FreeGame_construct(elements[i])
           next == IF i = Len(elements) THEN "split" ELSE "parse"
       IN  IF c.exc # "none"
           THEN /\ parsed' = Append(parsed, [valid |-> FALSE, status |-> EXPIRED,
                                             kept |-> FALSE])
                /\ IF games_catches(c.exc)
                   THEN pc' = next /\ UNCHANGED error
                   ELSE pc' = "respond" /\ error' = get_free_games_parse_error
                /\ UNCHANGED <<clock, games>>
           ELSE \E st \in StatusOutcomes(c.value[1], clock) :
                   LET game == c.value[1]
                       keep == st.exc = "none" /\ games_keeps(st.value)
                   IN  /\ parsed' = Append(parsed,
                                           [valid |-> TRUE, status |-> st.value,
                                            kept |-> keep])
                       /\ games' = IF keep THEN Append(games, game) ELSE games
                       /\ clock' = st.clock
                       /\ IF st.exc = "none" \/ games_catches(st.exc)
                          THEN pc' = next /\ UNCHANGED error
                          ELSE pc' = "respond" /\ error' = get_free_games_parse_error
    /\ UNCHANGED <<unit_vars, entry, cls, config, args, elements,
                   active_games, upcoming_games, posts, response>>

\* server.py / main.py: the lists of active and of upcoming games, each from a
\* fresh evaluation of every game's status; with --active-only or
\* --upcoming-only, get_active_games / get_upcoming_games.
Split ==
    /\ pc = "split"
    /\ IF args.active_only
       THEN \E a \in filter_status(games, 1, ACTIVE, clock) :
               /\ games' = a.value
               /\ active_games' = a.value
               /\ upcoming_games' = <<>>
               /\ clock' = a.clock
       ELSE IF args.upcoming_only
       THEN \E u \in filter_status(games, 1, UPCOMING, clock) :
               /\ games' = u.value
               /\ active_games' = <<>>
               /\ upcoming_games' = u.value
               /\ clock' = u.clock
       ELSE \E a \in filter_status(games, 1, ACTIVE, clock) :
               \E u \in filter_status(games, 1, UPCOMING, a.clock) :
                  /\ games' = games
                  /\ active_games' = a.value
                  /\ upcoming_games' = u.value
                  /\ clock' = u.clock
    /\ pc' = "notify_active"
    /\ UNCHANGED <<unit_vars, entry, cls, config, args, elements, parsed, posts, error, response>>

\* Is the notifier created at all?
notifier_created ==
    IF args.frontend = "server" THEN config.discord_enabled
    ELSE args.send_discord /\ config.discord_enabled

\* Is send_multiple_games_notification called for the active games?
sends_active ==
    /\ notifier_created
    /\ IF args.frontend = "server" THEN active_games # <<>> /\ config.notify_current_games
       ELSE IF args.active_only THEN games # <<>>
       ELSE IF args.upcoming_only THEN FALSE
       ELSE active_games # <<>> /\ config.notify_current_games

\* Is send_multiple_games_notification called for the upcoming games?
sends_upcoming ==
    /\ notifier_created
    /\ IF args.frontend = "server" THEN upcoming_games # <<>> /\ config.notify_upcoming_games
       ELSE IF args.active_only THEN FALSE
       ELSE IF args.upcoming_only THEN games # <<>>
       ELSE upcoming_games # <<>> /\ config.notify_upcoming_games

\* send_multiple_games_notification(gs, title, ...), then on to pc = next.
send_multiple_games_notification(gs, title, next) ==
    IF ~config.discord_enabled \/ ~config.webhook_url
    THEN /\ pc' = next
         /\ UNCHANGED <<posts, error>>
    ELSE \E outcome \in PostOutcomes :
            /\ posts' = Append(posts, [title |-> title,
                                       ids |-> Ids(FirstN(gs, NotificationCap)),
                                       ok |-> outcome = "ok"])
            /\ IF outcome = "ok" \/ notifier_catches(outcome)
               THEN pc' = next /\ UNCHANGED error
               ELSE pc' = "respond" /\ error' = Exception(outcome, "")

NotifyActive ==
    /\ pc = "notify_active"
    /\ IF sends_active
       THEN send_multiple_games_notification(
                IF args.frontend = "cli" /\ args.active_only THEN games ELSE active_games,
                ActiveTitle, "notify_upcoming")
       ELSE pc' = "notify_upcoming" /\ UNCHANGED <<posts, error>>
    /\ UNCHANGED <<unit_vars, clock, entry, cls, config, args, elements, games, parsed,
                   active_games, upcoming_games, response>>

NotifyUpcoming ==
    /\ pc = "notify_upcoming"
    /\ IF sends_upcoming
       THEN send_multiple_games_notification(
                IF args.frontend = "cli" /\ args.upcoming_only THEN games ELSE upcoming_games,
                UpcomingTitle, "respond")
       ELSE pc' = "respond" /\ UNCHANGED <<posts, error>>
    /\ UNCHANGED <<unit_vars, clock, entry, cls, config, args, elements, games, parsed,
                   active_games, upcoming_games, response>>

\* The end of _handle_check (_send_response) and of main (the exit code).
Respond ==
    /\ pc = "respond"
    /\ response' =
         IF args.frontend = "server"
         THEN IF error = NoError
              THEN <<[code |-> 200, kind |-> "Success",
                      active |-> Len(active_games), upcoming |-> Len(upcoming_games)]>>
              ELSE <<[code |-> 500,
                      kind |-> IF error.type \in EpicGamesAPIError THEN "API error" ELSE "Error",
                      active |-> 0, upcoming |-> 0]>>
         ELSE <<[code |-> IF error = NoError THEN 0 ELSE 1,
                 kind |-> IF error = NoError THEN "Success"
                          ELSE IF error.type \in EpicGamesAPIError THEN "API error" ELSE "Error",
                 active |-> 0, upcoming |-> 0]>>
    /\ pc' = "done"
    /\ UNCHANGED <<unit_vars, clock, entry, cls, config, args, elements, games, parsed,
                   active_games, upcoming_games, posts, error>>

Next ==
    \/ ConfigurationError
    \/ Request
    \/ ParseElement
    \/ Split
    \/ NotifyActive
    \/ NotifyUpcoming
    \/ Respond

Spec == Init /\ [][Next]_vars

\* ------------------------------------------------- the server, request by request
MaxCycles == 2

\* The configurations of the server: not loaded, the defaults, everything on.
ServerConfigs ==
    {[DefaultConfig EXCEPT !.loaded = FALSE],
     DefaultConfig,
     [DefaultConfig EXCEPT !.discord_enabled = TRUE, !.webhook_url = TRUE]}

InitServer ==
    /\ clock = 0
    /\ entry = FreeGame(0, <<>>, <<>>)
    /\ cls = NoCls
    /\ fetch = NoFetch
    /\ served = 0
    /\ twice = NoTwice
    /\ embed = <<>>
    /\ watch = <<>>
    /\ config \in ServerConfigs
    /\ args = ServerArgs
    /\ pc = "start"
    /\ elements = <<>>
    /\ games = <<>>
    /\ parsed = <<>>
    /\ active_games = <<>>
    /\ upcoming_games = <<>>
    /\ posts = <<>>
    /\ error = NoError
    /\ response = <<>>

\* Mutant of handle_check_local: the name is bound at module level and keeps
\* what the request before left in it.
handle_check_global(initial, previous) == previous

\* What a name bound inside _handle_check (the client, all_games, the lists,
\* the notifier) holds when the handler is entered: nothing of the request
\* before.
handle_check_local(initial, previous) == initial

\* HTTPServer.serve_forever: the handler of a request has returned, and the
\* next trigger request is handled, by a new HealthCheckHandler, in the same
\* thread.  The module-level config is the one loaded at start-up.
Accept ==
    /\ pc = "done"
    /\ served + 1 < MaxCycles
    /\ served' = served + 1
    /\ pc' = "start"
    /\ elements' = handle_check_local(<<>>, elements)
    /\ games' = handle_check_local(<<>>, games)
    /\ parsed' = handle_check_local(<<>>, parsed)
    /\ active_games' = handle_check_local(<<>>, active_games)
    /\ upcoming_games' = handle_check_local(<<>>, upcoming_games)
    /\ posts' = handle_check_local(<<>>, posts)
    /\ error' = handle_check_local(NoError, error)
    /\ response' = handle_check_local(<<>>, response)
    /\ UNCHANGED <<clock, entry, cls, config, args, fetch, twice, embed, watch>>

NextServer ==
    \/ ConfigurationError
    \/ Request
    \/ ParseElement
    \/ Split
    \/ NotifyActive
    \/ NotifyUpcoming
    \/ Respond
    \/ Accept

SpecServer == InitServer /\ [][NextServer]_vars

\* ------------------------------------------------- the deliveries of long lists
MaxGames == 11

\* n entries with the offer, numbered from first on.
GamesList(first, n, promotions) ==
    [k \in 1..n |-> FreeGame(first + k - 1, <<HttpsImage>>, promotions)]

\* A cycle whose fetch has returned a active and u upcoming entries, in any
\* configuration and mode, about to notify.
InitNotify ==
    /\ clock = 0
    /\ entry = FreeGame(0, <<>>, <<>>)
    /\ cls = NoCls
    /\ fetch = NoFetch
    /\ served = 0
    /\ twice = NoTwice
    /\ embed = <<>>
    /\ watch = <<>>
    /\ config \in {c \in Configs : c.loaded}
    /\ args \in Args
    /\ pc = "notify_active"
    /\ elements = <<>>
    /\ parsed = <<>>
    /\ posts = <<>>
    /\ error = NoError
    /\ response = <<>>
    /\ \E a \in 0..MaxGames, u \in {0, 1, MaxGames} :
         LET act == GamesList(1, a, Current(FreeThisWeek))
             upc == GamesList(a + 1, u, Soon(FreeNextWeek))
         IN  /\ active_games = IF args.upcoming_only THEN <<>> ELSE act
             /\ upcoming_games = IF args.active_only THEN <<>> ELSE upc
             /\ games = IF args.active_only THEN act
                        ELSE IF args.upcoming_only THEN upc
                        ELSE act \o upc

NextNotify ==
    \/ NotifyActive
    \/ NotifyUpcoming
    \/ Respond

SpecNotify == InitNotify /\ [][NextNotify]_vars

\* ------------------------------------------------- get_free_games, GET by GET
\* EpicGamesClient.MAX_RETRIES
MAX_RETRIES == 3

MaxErrors == 2

\* _create_session: Retry(status_forcelist=[429, 500, 502, 503, 504])
status_forcelist == {429, 500, 502, 503, 504}

\* One GET on the wire: a response with its status, or a failure of the
\* transport (status 0).
Attempt(kind, st) == [kind |-> kind, status |-> st]

Statuses == {200, 404} \cup status_forcelist
TransportFailures == {"ConnectTimeout", "ReadTimeout", "ConnectionError"}

AttemptOutcomes ==
    {Attempt("response", st) : st \in Statuses} \cup
    {Attempt(kind, 0) : kind \in TransportFailures}

\* Retry(total=MAX_RETRIES, allowed_methods=["GET"]): after which outcome of a
\* GET the adapter consults the retry budget.  total counts connect errors, read
\* errors and the responses whose status is in status_forcelist alike.
Retry_is_retry(attempt) ==
    \/ attempt.kind # "response"
    \/ attempt.status \in status_forcelist

\* Mutant of Retry_is_exhausted: one GET more.
Retry_is_exhausted_late(n) == n > MAX_RETRIES + 1

\* Retry.is_exhausted after the n-th GET failed: total has gone below 0.
Retry_is_exhausted(n) == n > MAX_RETRIES

\* HTTPAdapter.send on MaxRetryError: ConnectTimeout (a Timeout) when the last
\* failure was a connect timeout, RetryError when it was a response, else
\* ConnectionError; the last two are RequestException and neither Timeout nor
\* HTTPError.
MaxRetryError(attempt) ==
    IF attempt.kind = "ConnectTimeout" THEN "Timeout" ELSE "RequestException"

\* response.raise_for_status(): HTTPError on a status from 400 on.
raise_for_status(st) ==
    IF st = 429 THEN "HTTPError429"
    ELSE IF st >= 400 THEN "HTTPError"
    ELSE "ok"

\* The values under "errors": no key, null, a list of at most n errors.
ErrorCodes == {"1004", "5000"}

ErrorsValues(n) == {<<>>, ErrorNull} \cup {ErrorList(items) : items \in SeqsUpTo(ErrorCodes, n)}

\* The payloads of a fetch on its own: no element, or one.
FetchPayloads == {payload \in Payloads : Len(payload) <= 1}

\* The bodies of a fetch on its own.
FetchBodies ==
    {NotJson, JsonNull, JsonArray} \cup
    {JsonObject(errors, "full", payload) :
        errors \in ErrorsValues(MaxErrors), payload \in FetchPayloads} \cup
    {JsonObject(errors, path, <<>>) :
        errors \in ErrorsValues(MaxErrors), path \in Paths \ {"full"}}

\* The loop of FreeGamesResponse.games from element k on, started at clock c:
\* the lists it can build, each with the clock it ends at, or the exception
\* that leaves it.
RECURSIVE FreeGamesResponse_games(_, _, _)
FreeGamesResponse_games(els, k, c) ==
    IF k > Len(els) THEN {[exc |-> "none", value |-> <<>>, clock |-> c]}
    ELSE LET made == FreeGame_construct(els[k])
         IN  IF made.exc # "none"
             THEN IF games_catches(made.exc)
                  THEN FreeGamesResponse_games(els, k + 1, c)
                  ELSE {[exc |-> made.exc, value |-> <<>>, clock |-> c]}
             ELSE UNION {
                 IF st.exc # "none" /\ ~games_catches(st.exc)
                 THEN {[exc |-> st.exc, value |-> <<>>, clock |-> st.clock]}
                 ELSE {[exc |-> rest.exc,
                        value |-> IF rest.exc # "none" THEN <<>>
                                  ELSE IF st.exc = "none" /\ games_keeps(st.value)
                                       THEN <<made.value[1]>> \o rest.value
                                       ELSE rest.value,
                        clock |-> rest.clock] :
                           rest \in FreeGamesResponse_games(els, k + 1, st.clock)} :
                 st \in StatusOutcomes(made.value[1], c)}

\* `return games`: the caller is handed the list of entries; of data, and of
\* the errors left in it, nothing.
get_free_games_return(gs, data) == <<[games |-> gs, errors |-> <<>>]>>

InitFetch ==
    /\ clock = 0
    /\ entry = FreeGame(0, <<>>, <<>>)
    /\ cls = NoCls
    /\ NoCycle
    /\ fetch = [NoFetch EXCEPT !.pc = "get"]
    /\ served = 0
    /\ twice = NoTwice
    /\ embed = <<>>
    /\ watch = <<>>

\* session.get: one GET and what the adapter does with its outcome (a retry
\* while the budget lasts), then raise_for_status and the except clauses.
Get ==
    /\ fetch.pc = "get"
    /\ \E attempt \in AttemptOutcomes :
         LET sent == Append(fetch.attempts, attempt)
             outcome == IF Retry_is_retry(attempt) THEN MaxRetryError(attempt)
                        ELSE raise_for_status(attempt.status)
         IN  IF Retry_is_retry(attempt) /\ ~Retry_is_exhausted(Len(sent))
             THEN fetch' = [fetch EXCEPT !.attempts = sent]
             ELSE fetch' = [fetch EXCEPT
                      !.attempts = sent,
                      !.outcome = outcome,
                      !.error = IF outcome = "ok" THEN NoError
                                ELSE get_free_games_transport_error(outcome),
                      !.pc = IF outcome = "ok" THEN "decode" ELSE "raised"]
    /\ UNCHANGED <<clock, entry, cls, cycle_vars, served, twice, embed, watch>>

\* response.json(), _clean_response_errors, FreeGamesResponse(data=data) and
\* the navigation to the element array.
Decode ==
    /\ fetch.pc = "decode"
    /\ \E body \in FetchBodies :
         LET got == get_free_games_decode(body)
         IN  fetch' = [fetch EXCEPT
                 !.body = body, !.data = got.data, !.elements = got.elements,
                 !.error = got.error,
                 !.pc = IF got.error = NoError THEN "parse" ELSE "raised"]
    /\ UNCHANGED <<clock, entry, cls, cycle_vars, served, twice, embed, watch>>

\* The loop of FreeGamesResponse.games, and the return.
Parse ==
    /\ fetch.pc = "parse"
    /\ \E got \in FreeGamesResponse_games(fetch.elements, 1, clock) :
         /\ clock' = got.clock
         /\ IF got.exc # "none"
            THEN fetch' = [fetch EXCEPT !.error = get_free_games_parse_error,
                                        !.pc = "raised"]
            ELSE fetch' = [fetch EXCEPT
                     !.returned = get_free_games_return(got.value, fetch.data),
                     !.pc = "returned"]
    /\ UNCHANGED <<entry, cls, cycle_vars, served, twice, embed, watch>>

NextFetch ==
    \/ Get
    \/ Decode
    \/ Parse

SpecFetch == InitFetch /\ [][NextFetch]_vars

\* ------------------------------------- one payload object, classified twice
WideImage == [type |-> "OfferImageWide", url |-> "http"]

\* Elements with and without slugs and thumbnails; one is no free game, one
\* fails validation.
TwiceElements ==
    { [RawElement(0, "str", "iso", <<VideoImage, WideImage, HttpsImage>>, Current(FreeThisWeek))
          EXCEPT !.productSlug = <<"product">>, !.urlSlug = <<"url">>],
      [RawElement(0, "str", "iso", <<VideoImage>>, Soon(FreeNextWeek))
          EXCEPT !.productSlug = <<"">>, !.urlSlug = <<"url">>],
      RawElement(0, "str", "iso", <<>>, Current(FreeThisWeek)),
      RawElement(0, "str", "iso", <<HttpsImage>>, Current(HalfPrice)),
      RawElement(0, "absent", "iso", <<HttpsImage>>, Current(FreeThisWeek)) }

TwicePayloads ==
    {[k \in 1..Len(s) |-> [s[k] EXCEPT !.id = k]] : s \in SeqsUpTo(TwiceElements, MaxElements)}

TwiceErrors == {<<>>, ErrorNull, ErrorList(<<"1004">>), ErrorList(<<"1004", "5000">>)}

TwiceBodies ==
    {JsonNull} \cup
    {JsonObject(errors, "full", payload) :
        errors \in TwiceErrors, payload \in TwicePayloads} \cup
    {JsonObject(<<>>, path, <<>>) : path \in {"no_data", "data_null"}}

\* The properties of an entry that a reader of the result sees; st is what
\* self.status returned.
EntryView(self, st) ==
    [id |-> self.id,
     status |-> [exc |-> st.exc, value |-> st.value],
     is_free |-> is_free(self),
     available_from |-> available_from(self),
     available_until |-> available_until(self),
     thumbnail_url |-> thumbnail_url(self),
     store_url |-> store_url(self)]

\* Reading the properties of the games from game k on, started at clock c:
\* the views, and the clock after the last status.
RECURSIVE classified(_, _, _)
classified(gs, k, c) ==
    IF k > Len(gs) THEN {[value |-> <<>>, clock |-> c]}
    ELSE UNION {{[value |-> <<EntryView(gs[k], st)>> \o rest.value,
                  clock |-> rest.clock] :
                    rest \in classified(gs, k + 1, st.clock)} :
                st \in StatusOutcomes(gs[k], c)}

\* Mutant of games_leaves: the loop takes the elements out of the payload.
games_consumes(data) == [data EXCEPT !.elements = <<>>]

\* What FreeGamesResponse(data=data).games leaves in data: `for element in
\* elements` and FreeGame(**element) read the payload and write nothing.
games_leaves(data) == data

Run(exc, entries, start, end) ==
    [exc |-> exc, entries |-> entries, start |-> start, end |-> end]

InitTwice ==
    /\ clock \in Clocks
    /\ entry = FreeGame(0, <<>>, <<>>)
    /\ cls = NoCls
    /\ fetch = NoFetch
    /\ served = 0
    /\ \E body \in TwiceBodies :
           twice = [pc |-> "first", raw |-> body, data |-> body, now |-> clock,
                    runs |-> <<>>]
    /\ config = DefaultConfig
    /\ args = ServerArgs
    /\ NoCycle
    /\ embed = <<>>
    /\ watch = <<>>

\* The payload object is cleaned in place, parsed, and the properties of the
\* entries read.
ParseAndClassify ==
    /\ twice.pc \in {"first", "second"}
    /\ LET cleaned == clean_response_errors(twice.data)
           els == FreeGamesResponse_elements(cleaned.value)
           next == IF twice.pc = "first" THEN "second" ELSE "done"
       IN  IF cleaned.exc # "none" \/ els.exc # "none"
           THEN /\ twice' = [twice EXCEPT
                        !.data = cleaned.value,
                        !.runs = Append(@, Run(IF cleaned.exc # "none" THEN cleaned.exc
                                               ELSE els.exc, <<>>, clock, clock)),
                        !.pc = next]
                /\ clock' = clock
           ELSE \E got \in FreeGamesResponse_games(els.value, 1, clock) :
                  IF got.exc # "none"
                  THEN /\ twice' = [twice EXCEPT
                               !.data = cleaned.value,
                               !.runs = Append(@, Run(got.exc, <<>>, clock, got.clock)),
                               !.pc = next]
                       /\ clock' = got.clock
                  ELSE \E seen \in classified(got.value, 1, got.clock) :
                         /\ twice' = [twice EXCEPT
                                 !.data = games_leaves(cleaned.value),
                                 !.runs = Append(@, Run("none", seen.value, clock, seen.clock)),
                                 !.pc = next]
                         /\ clock' = seen.clock
    /\ UNCHANGED <<entry, cls, cycle_vars, fetch, served, embed, watch>>

NextTwice == ParseAndClassify

SpecTwice == InitTwice /\ [][NextTwice]_vars

\* --------------------------------------------------- the embed of an entry
MaxImages == 2

\* discord_notifier.py: `game.description[:500]`
DescriptionLimit == 500

ImageTypes == {"Thumbnail", "thumbnail", "OfferImageWide", "DieselStoreFrontWide", "Video"}
ImageUrls == {"http", "https"}
KeyImages == [type : ImageTypes, url : ImageUrls]

\* The values of an optional slug: None, "", a text.
Slugs(text) == {<<>>, <<"">>, <<text>>}

\* Epic's placeholder (the title again), a real description, and two long ones.
Descriptions ==
    {Text("title", 5), Text("description", 11),
     Text("long", DescriptionLimit), Text("long", DescriptionLimit + 1)}

\* Timestamps of the embeds are hours since 00:00 UTC of day 0: an offer from
\* 16:00 of day 0 to 16:00 of day 1, and one from 02:00 to 23:00 of day 0.
FromFourPm == [start_date |-> 16, end_date |-> 40, discount_percentage |-> 0]
FromTwoAm == [start_date |-> 2, end_date |-> 23, discount_percentage |-> 0]

EmbedPromotions ==
    {<<>>, Current(FromFourPm), Soon(FromFourPm), Current(FromTwoAm),
     Current(HalfPrice), <<Promotions(<<Group(<<>>)>>, <<>>)>>}

EmbedEntries ==
    LET base == FreeGame(1, <<>>, Current(FromFourPm))
    IN  {[base EXCEPT !.key_images = imgs] : imgs \in SeqsUpTo(KeyImages, MaxImages)}
        \cup {[base EXCEPT !.product_slug = p, !.url_slug = u] :
                  p \in Slugs("product"), u \in Slugs("url")}
        \cup {[base EXCEPT !.description = d, !.promotions = pr] :
                  d \in Descriptions, pr \in EmbedPromotions}

\* game.description[:500] + ("..." if len(game.description) > 500 else "")
embed_description(description) ==
    IF description.length > DescriptionLimit
    THEN [description EXCEPT !.length = DescriptionLimit + 3,
                             !.dropped = description.length - DescriptionLimit,
                             !.suffix = "..."]
    ELSE description

\* strftime("%Y-%m-%d %H:%M UTC") of a datetime: its own date and hour, and
\* the letters UTC.
strftime_utc(t) == [date |-> t \div 24, hour |-> t % 24, minute |-> 0, zone |-> "UTC"]

\* GameStatus.value.title()
str_title(value) ==
    CASE value = ACTIVE -> "Active"
      [] value = UPCOMING -> "Upcoming"
      [] OTHER -> "Expired"

Field(name, value) == [name |-> name, value |-> value]

\* The "Available From" / "Available Until" field of a date, if there is one.
available_field(name, date) ==
    IF date = <<>> THEN <<>> ELSE <<Field(name, strftime_utc(date[1]))>>

\* _create_game_embed(game, include_image); st is what game.status returned.
\* The publisher field, the colour and the footer are constants of no claim.
create_game_embed(game, include_image, st) ==
    LET from == available_from(game)
        until == available_until(game)
    IN  IF st.exc # "none" THEN [exc |-> st.exc, value |-> <<>>]
        ELSE IF from.exc # "none" THEN [exc |-> from.exc, value |-> <<>>]
        ELSE IF until.exc # "none" THEN [exc |-> until.exc, value |-> <<>>]
        ELSE [exc |-> "none",
              value |-> <<[title |-> game.title,
                           description |-> embed_description(game.description),
                           url |-> store_url(game),
                           status |-> str_title(st.value),
                           fields |-> available_field("Available From", from.value)
                                      \o available_field("Available Until", until.value),
                           thumbnail |-> IF include_image THEN thumbnail_url(game)
                                         ELSE <<>>,
                           timestamp |-> from.value]>>]

InitEmbed ==
    /\ clock = 0
    /\ entry \in EmbedEntries
    /\ cls = NoCls
    /\ NoCycle
    /\ fetch = NoFetch
    /\ served = 0
    /\ twice = NoTwice
    /\ embed = <<>>
    /\ watch = <<>>

\* One call of _create_game_embed on entry.
CreateGameEmbed ==
    /\ embed = <<>>
    /\ pc = "off"
    /\ \E include_image \in BOOLEAN :
         \E st \in StatusOutcomes(entry, clock) :
            LET made == create_game_embed(entry, include_image, st)
            IN  /\ embed' = <<[include_image |-> include_image, exc |-> made.exc,
                               value |-> made.value]>>
                /\ clock' = st.clock
    /\ UNCHANGED <<entry, cls, cycle_vars, fetch, served, twice, watch>>

NextEmbed == CreateGameEmbed

SpecEmbed == InitEmbed /\ [][NextEmbed]_vars

\* ------------------------------------- one entry, its status read again and again
MaxObservations == 3

\* The entries watched hold one offer, or none.
InitWatch ==
    /\ clock = 0
    /\ EntryOver(entry, Offers, 1, 1)
    /\ cls = NoCls
    /\ NoCycle
    /\ fetch = NoFetch
    /\ served = 0
    /\ twice = NoTwice
    /\ embed = <<>>
    /\ watch = <<>>

\* entry.status is read once more; the clock never goes back.
ReadStatus ==
    /\ Len(watch) < MaxObservations
    /\ pc = "off"
    /\ \E st \in StatusOutcomes(entry, clock) :
         /\ watch' = Append(watch, [exc |-> st.exc, value |-> st.value,
                                    reads |-> st.reads])
         /\ clock' = st.clock
    /\ UNCHANGED <<entry, cls, cycle_vars, fetch, served, twice, embed>>

NextWatch == ReadStatus

SpecWatch == InitWatch /\ [][NextWatch]_vars

\* ------------------------------------------------- what the claims speak of
\* The flattening the specification describes, group by group from the left.
RECURSIVE Flattened(_)
Flattened(groups) ==
    IF groups = <<>> THEN <<>>
    ELSE Head(groups).promotional_offers \o Flattened(Tail(groups))

\* The flattened offers of the entry being classified (none without promotions).
EntryOffers ==
    IF entry.promotions = <<>> THEN <<>>
    ELSE Flattened(entry.promotions[1].promotional_offers)
         \o Flattened(entry.promotions[1].upcoming_promotional_offers)

ZeroDiscount(o) == o.discount_percentage = 0
ActiveAt(o, now) == o.start_date <= now /\ now < o.end_date
UpcomingAt(o, now) == now < o.start_date
Qualifies(o, now) == ZeroDiscount(o) /\ (ActiveAt(o, now) \/ UpcomingAt(o, now))

\* The status the scan in flattened order yields at instant now.
ScanStatus(offers, now) ==
    IF \E k \in 1..Len(offers) : Qualifies(offers[k], now)
    THEN LET first == CHOOSE k \in 1..Len(offers) :
                          /\ Qualifies(offers[k], now)
                          /\ \A j \in 1..(k - 1) : ~Qualifies(offers[j], now)
         IN  IF ActiveAt(offers[first], now) THEN ACTIVE ELSE UPCOMING
    ELSE EXPIRED

\* Every clock reading of the classification showed the instant now.
SteadyAt(now) == \A j \in 1..Len(cls.reads) : cls.reads[j] = now

\* The classification read the clock, and read the same instant every time.
Steady == cls.reads # <<>> /\ SteadyAt(cls.reads[1])

Raised ==
    \/ cls.status.exc # "none"
    \/ cls.is_free.exc # "none"
    \/ cls.available_from.exc # "none"
    \/ cls.available_until.exc # "none"

\* C1: with the clock reading now throughout, status is the result of the scan
\* of the flattened offers in flattened order: the first zero-discount offer
\* that is active (Active) or upcoming (Upcoming) at now decides, and with no
\* such offer the status is Expired.
C1_StatusIsFirstQualifying ==
    cls.done =>
        \A now \in Clocks :
            SteadyAt(now) =>
                /\ cls.status.exc = "none"
                /\ cls.status.value = ScanStatus(EntryOffers, now)

\* An earlier-listed upcoming free offer won over a later-listed active one.
C1_Witness ==
    /\ cls.done /\ Steady
    /\ \E j, k \in 1..Len(EntryOffers) :
          /\ j < k
          /\ \A i \in 1..(j - 1) : ~Qualifies(EntryOffers[i], cls.reads[1])
          /\ ZeroDiscount(EntryOffers[j]) /\ UpcomingAt(EntryOffers[j], cls.reads[1])
          /\ ZeroDiscount(EntryOffers[k]) /\ ActiveAt(EntryOffers[k], cls.reads[1])
    /\ cls.status.value = UPCOMING

\* C2: isFree is true exactly when some flattened offer has discount
\* percentage 0, whatever that offer's window; no other percentage counts, and
\* an entry without promotions is not free.
C2_IsFreeIffZeroDiscount ==
    cls.done =>
        /\ cls.is_free.exc = "none"
        /\ cls.is_free.value = (\E k \in 1..Len(EntryOffers) : ZeroDiscount(EntryOffers[k]))

\* Free by an offer that has ended, beside a negative and an above-100 discount.
C2_Witness ==
    /\ cls.done
    /\ cls.is_free.value
    /\ cls.status.value = EXPIRED
    /\ \E k \in 1..Len(EntryOffers) : EntryOffers[k].discount_percentage < 0

\* Not free although a negative and an above-100 percentage are on offer.
C2_WitnessNotFree ==
    /\ cls.done
    /\ ~cls.is_free.value
    /\ \E j, k \in 1..Len(EntryOffers) :
          /\ EntryOffers[j].discount_percentage < 0
          /\ EntryOffers[k].discount_percentage > 100

\* C3: when no zero-discount offer is active or upcoming at the instant now
\* the clock shows, the status is Expired and the parser does not keep the entry, whatever
\* non-zero-discount offers are active.
C3_PartialDiscountNeverFree ==
    cls.done =>
        \A now \in Clocks :
            ( /\ SteadyAt(now)
              /\ \A k \in 1..Len(EntryOffers) : ~Qualifies(EntryOffers[k], now) )
            => /\ cls.status.exc = "none"
               /\ cls.status.value = EXPIRED
               /\ ~cls.kept

\* A partial discount is active while the free offer has already ended.
C3_Witness ==
    /\ cls.done /\ Steady
    /\ \E j, k \in 1..Len(EntryOffers) :
          /\ ~ZeroDiscount(EntryOffers[j]) /\ ActiveAt(EntryOffers[j], cls.reads[1])
          /\ ZeroDiscount(EntryOffers[k]) /\ cls.reads[1] >= EntryOffers[k].end_date
                                          /\ cls.reads[1] >= EntryOffers[k].start_date
    /\ cls.status.value = EXPIRED
    /\ ~cls.kept

\* C6: without a promotions block, or with no offer in it, classification
\* raises nothing and gives Expired, not free, no availability dates.
C6_NoOffersIsExpired ==
    (cls.done /\ EntryOffers = <<>>) =>
        /\ ~Raised
        /\ cls.status.value = EXPIRED
        /\ ~cls.is_free.value
        /\ cls.available_from.value = <<>>
        /\ cls.available_until.value = <<>>

\* No promotions block at all.
C6_Witness ==
    /\ cls.done
    /\ entry.promotions = <<>>
    /\ cls.status.value = EXPIRED

\* A promotions block whose groups hold no offer.
C6_WitnessEmptyGroups ==
    /\ cls.done
    /\ entry.promotions # <<>>
    /\ Len(entry.promotions[1].promotional_offers) > 0
    /\ Len(entry.promotions[1].upcoming_promotional_offers) > 0
    /\ EntryOffers = <<>>
    /\ cls.status.value = EXPIRED

\* C7: get_all_offers is the offers of the current groups, group by group and
\* in their order inside each group, followed by those of the upcoming
\* groups; it is get_current_offers() ++ get_upcoming_offers(), and it is
\* empty when there is no offer.
C7_FlattenOrder ==
    (cls.done /\ entry.promotions # <<>>) =>
        /\ cls.current_offers = Flattened(entry.promotions[1].promotional_offers)
        /\ cls.upcoming_offers = Flattened(entry.promotions[1].upcoming_promotional_offers)
        /\ cls.all_offers = cls.current_offers \o cls.upcoming_offers

\* Two current groups and an upcoming group, with different offers.
C7_Witness ==
    /\ cls.done
    /\ entry.promotions # <<>>
    /\ Len(entry.promotions[1].promotional_offers) >= 2
    /\ Len(cls.current_offers) >= 2
    /\ cls.current_offers[1] # cls.current_offers[2]
    /\ Len(cls.upcoming_offers) >= 1
    /\ cls.upcoming_offers[1] # cls.current_offers[Len(cls.current_offers)]
    /\ Len(cls.all_offers) = MaxOffers + 1

\* C8: availableFrom / availableUntil are the start and end of the first
\* zero-discount offer in flattened order, not of the first offer overall.
C8_AvailabilityOfFirstZeroDiscount ==
    (cls.done /\ \E k \in 1..Len(EntryOffers) : ZeroDiscount(EntryOffers[k])) =>
        LET first == CHOOSE k \in 1..Len(EntryOffers) :
                         /\ ZeroDiscount(EntryOffers[k])
                         /\ \A j \in 1..(k - 1) : ~ZeroDiscount(EntryOffers[j])
        IN  /\ cls.available_from.value = <<EntryOffers[first].start_date>>
            /\ cls.available_until.value = <<EntryOffers[first].end_date>>

\* C9: an offer with start >= end is active at no instant, and an entry whose
\* only zero-discount offer is such an offer is Upcoming exactly before its
\* start and Expired from then on, without raising.
C9_InvertedWindowNeverActive ==
    cls.done =>
        /\ \A k \in 1..Len(cls.all_offers) :
              cls.all_offers[k].start_date >= cls.all_offers[k].end_date =>
                  \A now \in Clocks : ~is_active(cls.all_offers[k], now)
        /\ \A k \in 1..Len(EntryOffers), now \in Clocks :
              ( /\ SteadyAt(now)
                /\ ZeroDiscount(EntryOffers[k])
                /\ EntryOffers[k].start_date >= EntryOffers[k].end_date
                /\ \A j \in 1..Len(EntryOffers) : ZeroDiscount(EntryOffers[j]) => j = k )
              => /\ cls.status.exc = "none"
                 /\ cls.status.value =
                        IF now < EntryOffers[k].start_date THEN UPCOMING ELSE EXPIRED

\* The inverted free offer is classified between its end and its start.
C9_Witness ==
    /\ cls.done /\ Steady
    /\ \E k \in 1..Len(EntryOffers) :
          /\ ZeroDiscount(EntryOffers[k])
          /\ EntryOffers[k].start_date > EntryOffers[k].end_date
          /\ EntryOffers[k].end_date <= cls.reads[1]
          /\ cls.reads[1] < EntryOffers[k].start_date
          /\ \A j \in 1..Len(EntryOffers) : ZeroDiscount(EntryOffers[j]) => j = k
    /\ cls.status.value = UPCOMING

\* The positions 1..n, in order.
Positions(n) == [k \in 1..n |-> k]

\* C4: every entry of the sequence games returns had status Active or
\* Upcoming when the parser classified it; no entry the parser classified
\* Expired is in the result.
C4_OnlyActiveOrUpcomingKept ==
    /\ \A k \in 1..Len(games) :
          /\ games[k].id \in 1..Len(parsed)
          /\ parsed[games[k].id].status \in {ACTIVE, UPCOMING}
    /\ \A i \in 1..Len(parsed) :
          (parsed[i].valid /\ parsed[i].status = EXPIRED) =>
              \A k \in 1..Len(games) : games[k].id # i

\* The parser returns one entry and has dropped another as Expired.
C4_Witness ==
    /\ pc = "split"
    /\ Len(games) >= 1
    /\ \E i \in 1..Len(parsed) : parsed[i].valid /\ parsed[i].status = EXPIRED

\* A raw element that passes validation: title a string, effectiveDate a
\* parseable timestamp; the scheme of an image url does not matter.
RawValid(element) == element.title = "str" /\ element.effectiveDate = "iso"

\* C5: parsing never raises because of an element; an element that fails
\* construction is skipped, and the result is the subsequence, in the original
\* order, of the elements that are valid and were classified Active or
\* Upcoming.  An element with a non-HTTP image url is valid.
C5_InvalidElementsSkipped ==
    /\ error # get_free_games_parse_error
    /\ pc = "split" => Len(parsed) = Len(elements)
    /\ \A i \in 1..Len(parsed) : parsed[i].valid = RawValid(elements[i])
    /\ pc \in {"parse", "split"} =>
          LET Eligible(i) == /\ RawValid(elements[i])
                             /\ parsed[i].status \in {ACTIVE, UPCOMING}
          IN  Ids(games) = SelectSeq(Positions(Len(parsed)), Eligible)

\* A failing element was skipped and an element with a video url was kept.
C5_Witness ==
    /\ pc = "split"
    /\ Len(elements) >= 2
    /\ \E i \in 1..Len(elements) : ~RawValid(elements[i])
    /\ \E k \in 1..Len(games) :
          \E j \in 1..Len(games[k].key_images) :
              games[k].key_images[j].url \notin {"http", "https"}

\* The classes of the exceptions get_free_games ends in.
FetchErrors == EpicGamesAPIError \cup {"TypeError"}

\* The exit code or HTTP status of a cycle that succeeded.
SuccessCode == IF args.frontend = "server" THEN 200 ELSE 0

\* C10: in a cycle whose fetch succeeded a failed webhook delivery does not
\* abort the cycle: after a failed delivery for the active games the one for
\* the upcoming games is still made (if there are upcoming games and their
\* toggle is on), and the cycle reports success, the endpoint with the counts.
C10_DeliveryFailureAbsorbed ==
    (pc = "done" /\ config.loaded /\ error.type \notin FetchErrors) =>
        /\ response # <<>>
        /\ response[1].code = SuccessCode
        /\ args.frontend = "server" =>
              /\ response[1].active = Len(active_games)
              /\ response[1].upcoming = Len(upcoming_games)
        /\ ( /\ \E j \in 1..Len(posts) : posts[j].title = ActiveTitle /\ ~posts[j].ok
             /\ upcoming_games # <<>>
             /\ config.notify_upcoming_games )
           => \E j \in 1..Len(posts) : posts[j].title = UpcomingTitle

\* The endpoint: the active delivery failed, the upcoming one was made, 200.
C10_Witness ==
    /\ pc = "done"
    /\ args.frontend = "server"
    /\ Len(posts) = 2
    /\ posts[1].title = ActiveTitle /\ ~posts[1].ok
    /\ posts[2].title = UpcomingTitle
    /\ response[1].code = 200
    /\ response[1].active >= 1 /\ response[1].upcoming >= 1

\* The command line: both deliveries failed, exit code 0.
C10_WitnessCli ==
    /\ pc = "done"
    /\ args.frontend = "cli"
    /\ Len(posts) = 2
    /\ ~posts[1].ok /\ ~posts[2].ok
    /\ response[1].code = 0

\* The exit code or HTTP status of a cycle that failed.
FailureCode == IF args.frontend = "server" THEN 500 ELSE 1

\* C11: a cycle whose fetch or parse failed ends with a typed
\* EpicGamesAPIError at the caller, without any webhook delivery, and is
\* reported as failed: status 500 from the endpoint, exit code 1 from the
\* command line.
C11_FetchFailureTypedAndReported ==
    (pc = "done" /\ config.loaded /\ error # NoError) =>
        /\ error.type \in EpicGamesAPIError
        /\ posts = <<>>
        /\ response # <<>>
        /\ response[1].code = FailureCode
        /\ response[1].kind = "API error"

\* The last GET of the fetch.
LastAttempt == fetch.attempts[Len(fetch.attempts)]

\* The fetch ended in an exception of the GET.
GetRaised == fetch.pc = "raised" /\ fetch.outcome \notin {"none", "ok"}

\* C12: a GET that exceeded its deadline is reported as a failure kind of its
\* own: not the rate-limit kind, not the general network-error kind, not the
\* invalid-response kind.
C12_TimeoutIsADistinctKind ==
    (GetRaised /\ LastAttempt.kind \in {"ConnectTimeout", "ReadTimeout"}) =>
        fetch.error.type \notin {"RateLimitError", "NetworkError", "InvalidResponseError"}

\* C13: when upstream answers 429 until the retry budget is exhausted the
\* fetch raises RateLimitError, and it raises RateLimitError after no other
\* status and no other failure.
C13_RateLimitAfter429 ==
    /\ (GetRaised /\ \A i \in 1..Len(fetch.attempts) :
                         fetch.attempts[i] = Attempt("response", 429)) =>
           fetch.error.type = "RateLimitError"
    /\ fetch.error.type = "RateLimitError" =>
           LastAttempt.kind = "response" /\ LastAttempt.status = 429

\* The body was decoded (or failed to decode) in this fetch.
Decoded == fetch.outcome = "ok" /\ fetch.pc \in {"raised", "returned"}

\* C14: a body that is not JSON, and a JSON object in which the path
\* data -> Catalog -> searchStore -> elements cannot be navigated, both end the
\* fetch in InvalidResponseError; no list of entries is returned for them.
C14_UnnavigablePayloadIsInvalid ==
    ( /\ Decoded
      /\ \/ fetch.body.json = "invalid"
         \/ fetch.body.json = "object" /\ fetch.body.path # "full"
      /\ fetch.body.errors # ErrorNull ) =>
        /\ fetch.pc = "raised"
        /\ fetch.error.type = "InvalidResponseError"
        /\ fetch.returned = <<>>

\* The GETs of the fetch after which another GET was issued.
Reissued == {i \in 1..Len(fetch.attempts) : i < Len(fetch.attempts)}

\* The fetch has issued its last GET.
GetOver == fetch.pc # "get"

C15_WitnessRecovered ==
    /\ fetch.pc = "decode"
    /\ fetch.attempts = <<Attempt("response", 502), Attempt("response", 200)>>

\* The errors of the body the cleaning must leave, in order.
Remaining ==
    IF fetch.body.errors = <<>> THEN <<>>
    ELSE SelectSeq(fetch.body.errors[1].items, LAMBDA code : code # "1004")

\* The body is an object whose "errors", if any, is a list.
Cleanable == fetch.body.json = "object" /\ fetch.body.errors # ErrorNull

\* C16: cleaning removes exactly the errors with code "1004" (and the array
\* with its last error), leaves every other error in place and in order and
\* the data part as it was; the errors left do not make the parse fail, and
\* the caller of the fetch is handed them.
C16_CleaningFrame ==
    (Decoded /\ Cleanable) =>
        /\ fetch.data.errors = IF Remaining = <<>> THEN <<>> ELSE ErrorList(Remaining)
        /\ fetch.data.path = fetch.body.path
        /\ fetch.data.elements = fetch.body.elements
        /\ fetch.body.path = "full" => fetch.pc = "returned"
        /\ fetch.pc = "returned" =>
              fetch.returned[1].errors = fetch.data.errors

\* The list send_multiple_games_notification was called with under this title.
Delivered(title) ==
    IF title = ActiveTitle
    THEN IF args.frontend = "cli" /\ args.active_only THEN games ELSE active_games
    ELSE IF args.frontend = "cli" /\ args.upcoming_only THEN games ELSE upcoming_games

Min(a, b) == IF a < b THEN a ELSE b

\* C17: every webhook POST carries the first min(n, 10) entries of the list of
\* n entries the delivery was called with, in their order, and a delivery makes
\* one POST only: a longer list is not split into further POSTs.
C17_AtMostTenPerDelivery ==
    /\ \A j \in 1..Len(posts) :
          LET gs == Delivered(posts[j].title)
          IN  /\ Len(posts[j].ids) = Min(Len(gs), 10)
              /\ \A k \in 1..Len(posts[j].ids) : posts[j].ids[k] = gs[k].id
    /\ \A i, j \in 1..Len(posts) : posts[i].title = posts[j].title => i = j

\* Eleven active entries: one POST with the first ten, and the cycle is over.
C17_Witness ==
    /\ pc = "done"
    /\ Len(active_games) = 11
    /\ \E j \in 1..Len(posts) :
          /\ posts[j].title = ActiveTitle
          /\ Len(posts[j].ids) = 10
          /\ posts[j].ids[10] = active_games[10].id
    /\ \A j \in 1..Len(posts) : posts[j].title = ActiveTitle => j = 1

\* C18: an active-games notification is delivered only with
\* notify_current_games on, an upcoming-games notification only with
\* notify_upcoming_games on, on the endpoint and in every mode of the command
\* line.
C18_TogglesGateDeliveries ==
    \A j \in 1..Len(posts) :
        /\ posts[j].title = ActiveTitle => config.notify_current_games
        /\ posts[j].title = UpcomingTitle => config.notify_upcoming_games

\* The names bound inside the handler hold nothing.
FreshLocals ==
    /\ elements = <<>>
    /\ games = <<>>
    /\ parsed = <<>>
    /\ active_games = <<>>
    /\ upcoming_games = <<>>
    /\ posts = <<>>
    /\ error = NoError
    /\ response = <<>>

SameNow == Len(twice.runs) = 2 /\ twice.runs[2].end = twice.now

C20_WitnessMoved ==
    /\ Len(twice.runs) = 2
    /\ twice.runs[2].end > twice.now
    /\ Len(twice.runs[2].entries) < Len(twice.runs[1].entries)

\* An embed was built for entry.
Embedded == embed # <<>> /\ embed[1].exc = "none"

PreferredTypes == {"Thumbnail", "OfferImageWide", "DieselStoreFrontWide"}

\* The positions of the images of a preferred type.
Preferred == {k \in 1..Len(entry.key_images) : entry.key_images[k].type \in PreferredTypes}

\* C21: the thumbnail is the url of the first image of a preferred type
\* (Thumbnail, OfferImageWide, DieselStoreFrontWide, matched exactly), also
\* after images of other types; without such an image it is the url of the
\* first image, and without images it is absent.
C21_ThumbnailIsFirstPreferred ==
    Embedded /\ embed[1].include_image =>
        LET imgs == entry.key_images
            thumbnail == embed[1].value[1].thumbnail
        IN  /\ Preferred # {} =>
                   \E k \in Preferred :
                       /\ \A j \in Preferred : k <= j
                       /\ thumbnail = <<imgs[k].url>>
            /\ Preferred = {} /\ imgs # <<>> => thumbnail = <<imgs[1].url>>
            /\ imgs = <<>> => thumbnail = <<>>

\* A preferred image behind an image of another type and another url.
C21_Witness ==
    /\ Embedded /\ embed[1].include_image
    /\ Len(entry.key_images) = 2
    /\ Preferred = {2}
    /\ entry.key_images[1].url # entry.key_images[2].url
    /\ embed[1].value[1].thumbnail = <<entry.key_images[2].url>>

\* Only a lower-case "thumbnail" behind a video: the first image is taken.
C21_WitnessFallback ==
    /\ Embedded /\ embed[1].include_image
    /\ Len(entry.key_images) = 2
    /\ entry.key_images[1].type = "Video"
    /\ entry.key_images[2].type = "thumbnail"
    /\ entry.key_images[1].url # entry.key_images[2].url
    /\ embed[1].value[1].thumbnail = <<entry.key_images[1].url>>

NonEmpty(slug) == slug # <<>> /\ slug[1] # ""

\* C22: the url of an entry is the base url, /p/ and the product slug if that
\* is non-empty, else the url slug if that is non-empty, else the id.
C22_StoreUrlSlugPrecedence ==
    Embedded =>
        LET url == embed[1].value[1].url
        IN  /\ url.base = "https://store.epicgames.com/en-US/p/"
            /\ NonEmpty(entry.product_slug) =>
                   url.slug = [text |-> entry.product_slug[1], id |-> 0]
            /\ ~NonEmpty(entry.product_slug) /\ NonEmpty(entry.url_slug) =>
                   url.slug = [text |-> entry.url_slug[1], id |-> 0]
            /\ ~NonEmpty(entry.product_slug) /\ ~NonEmpty(entry.url_slug) =>
                   url.slug = [text |-> "", id |-> entry.id]

\* An empty product slug is passed over for the url slug.
C22_Witness ==
    /\ Embedded
    /\ entry.product_slug = <<"">>
    /\ entry.url_slug = <<"url">>
    /\ embed[1].value[1].url.slug.text = "url"

\* Two empty slugs: the id is the slug.
C22_WitnessId ==
    /\ Embedded
    /\ entry.product_slug = <<"">>
    /\ entry.url_slug = <<"">>
    /\ embed[1].value[1].url.slug = [text |-> "", id |-> entry.id]

\* tests/test_discord_notifier.py: PHT is UTC+8.
PHT == 8

\* What the tests want of _format_datetime_pht: 16:00 UTC is 00:00 of the
\* next day, PHT.
format_datetime_pht(t) ==
    [date |-> (t + PHT) \div 24, hour |-> (t + PHT) % 24, minute |-> 0, zone |-> "PHT"]

\* The date a field of the embed is about.
FieldDate(name) ==
    IF name = "Available From" THEN available_from(entry).value[1]
    ELSE available_until(entry).value[1]

\* C23: every "Available From" / "Available Until" field of the embed holds
\* its timestamp converted from UTC to PHT (UTC+8) and ends in PHT.
C23_FieldsArePHT ==
    Embedded =>
        \A k \in 1..Len(embed[1].value[1].fields) :
            LET field == embed[1].value[1].fields[k]
            IN  /\ field.value.zone = "PHT"
                /\ field.value = format_datetime_pht(FieldDate(field.name))

\* C24: a placeholder description (the title again) is replaced in the embed
\* by a text that is not the title; a real description within the limit is
\* carried into the embed as it is.
C24_PlaceholderDescriptionReplaced ==
    Embedded =>
        LET description == embed[1].value[1].description
        IN  /\ entry.description = entry.title => description # entry.title
            /\ entry.description # entry.title
                   /\ entry.description.length <= DescriptionLimit
                   => description = entry.description

\* The server answered a trigger request with success.
ServedSuccess ==
    /\ args.frontend = "server"
    /\ pc = "done"
    /\ response # <<>> /\ response[1].code = 200

\* C25: in a successful cycle every entry the fetch returned is in exactly one
\* of the active and the upcoming list: the two counts of the response add up
\* to the number of entries returned.
C25_CountsAddUp ==
    ServedSuccess =>
        /\ response[1].active + response[1].upcoming = Len(games)
        /\ \A k \in 1..Len(games) :
               (\E i \in 1..Len(active_games) : active_games[i] = games[k])
               # (\E j \in 1..Len(upcoming_games) : upcoming_games[j] = games[k])

\* The entry holds one offer, at zero discount, with start < end.
OneFreeOffer ==
    /\ Len(EntryOffers) = 1
    /\ ZeroDiscount(EntryOffers[1])
    /\ EntryOffers[1].start_date < EntryOffers[1].end_date

\* C26: for an entry whose only offer is at zero discount with start < end,
\* an evaluation of status during which the clock stays before end yields
\* Active or Upcoming, never Expired, also when the clock passes start
\* between the reading of is_active and the reading of is_upcoming.
C26_StatusOfOneEvaluation ==
    cls.done /\ OneFreeOffer
        /\ (\A j \in 1..Len(cls.reads) : cls.reads[j] < EntryOffers[1].end_date)
        => cls.status.value \in {ACTIVE, UPCOMING}

\* C27: an entry that FreeGamesResponse.games keeps (status Active or
\* Upcoming) is free and has both dates: its flattened offers are not empty
\* and hold an offer at zero discount.
C27_KeptEntriesAreFreeWithDates ==
    cls.done /\ cls.kept =>
        /\ cls.is_free.exc = "none" /\ cls.is_free.value
        /\ cls.available_from.exc = "none" /\ cls.available_from.value # <<>>
        /\ cls.available_until.exc = "none" /\ cls.available_until.value # <<>>
        /\ EntryOffers # <<>>
        /\ \E k \in 1..Len(EntryOffers) : ZeroDiscount(EntryOffers[k])

\* A kept entry whose first offer is not free: the dates are there all the same.
C27_Witness ==
    /\ cls.done /\ cls.kept
    /\ Len(EntryOffers) >= 2
    /\ ~ZeroDiscount(EntryOffers[1])
    /\ cls.is_free.value
    /\ cls.available_from.value # <<>>

\* Upcoming, then Active, then Expired.
Rank(value) ==
    CASE value = UPCOMING -> 1
      [] value = ACTIVE -> 2
      [] OTHER -> 3

\* The status of the one offer at instant now.
Band(o, now) ==
    IF now < o.start_date THEN UPCOMING
    ELSE IF now < o.end_date THEN ACTIVE
    ELSE EXPIRED

\* C28: for an entry with one zero-discount offer with start < end, a status
\* read at now is Upcoming before start, Active from start to before end and
\* Expired from end on, and as the clock advances a later reading never
\* yields an earlier status than a reading before it.
C28_StatusMovesForward ==
    OneFreeOffer =>
        /\ \A i \in 1..Len(watch) :
               \A now \in Clocks :
                   (\A j \in 1..Len(watch[i].reads) : watch[i].reads[j] = now)
                       => watch[i].value = Band(EntryOffers[1], now)
        /\ \A i, j \in 1..Len(watch) :
               i < j => Rank(watch[i].value) <= Rank(watch[j].value)

====
